---------------------------- MODULE Spec2Model ----------------------------
(***************************************************************************)
(* HTML to PowerPoint converter (convert_to_pptx.py).                       *)
(*                                                                         *)
(* The program is a two stage pipeline: parse_html_file walks the slide    *)
(* containers of an HTML document and flattens each one into a record      *)
(* {slide_number, title, content}; create_powerpoint_presentation filters, *)
(* normalises and appends one deck slide per kept record; main glues the   *)
(* two together behind a file existence check.                             *)
(*                                                                         *)
(* Text is modelled character by character: a string is a sequence of      *)
(* one-character strings, so that len(), strip(), replace(), slicing and   *)
(* join() are computed, not assumed.  The HTML document is modelled as its *)
(* element tree (what BeautifulSoup hands to the code).                    *)
(***************************************************************************)
EXTENDS Integers, Sequences, FiniteSets, TLC

VARIABLES
    pc,             \* position of the program
    file_exists,    \* os.path.exists(html_path)
    html,           \* the slide containers of the document, in document order
    stdout,         \* the error lines printed so far
    parse_ret,      \* what parse_html_file returned: "unset", "None" or "list"
    slides_data,    \* the list of records
    i,              \* loop counter of the running loop
    title,          \* slide_data['title'] of the slide being extracted
    content_parts,  \* fragments of the slide being extracted
    j,              \* number of metric boxes of the slide already handled
    prs,            \* the deck: the slides appended so far
    content,        \* local `content` of the renderer loop
    is_title,       \* local `is_title` of the renderer loop
    saved           \* the deck written by prs.save, <<>> while none is

vars == <<pc, file_exists, html, stdout, parse_ret, slides_data, i, title,
          content_parts, j, prs, content, is_title, saved>>

parseVars == <<title, content_parts, j>>
renderVars == <<prs, content, is_title, saved>>

----------------------------------------------------------------------------
(* Bounds of the model *)

\* longest record sequence handed to the renderer directly
MaxRecords == 2
\* most slide containers in a document
MaxSlides == 2
\* longest run of consecutive newlines in a generated content
MaxRun == 5

(* Program constants *)

MinContentLen == 20
MaxContentLen == 1500
MinParaLen == 10
TitleLayout == 0
ContentLayout == 1

----------------------------------------------------------------------------
(* Characters and strings *)

NL == "\n"
Bullet == "U+2022"
Whitespace == {" ", NL, "\t", "\r"}

Rep(c, n) == [k \in 1..n |-> c]

UpperLetters ==
    <<"A", "B", "C", "D", "E", "F", "G", "H", "I", "J", "K", "L", "M",
      "N", "O", "P", "Q", "R", "S", "T", "U", "V", "W", "X", "Y", "Z">>
LowerLetters ==
    <<"a", "b", "c", "d", "e", "f", "g", "h", "i", "j", "k", "l", "m",
      "n", "o", "p", "q", "r", "s", "t", "u", "v", "w", "x", "y", "z">>

\* str.lower() on one character
LowerChar(c) ==
    IF \E k \in 1..Len(UpperLetters) : UpperLetters[k] = c
    THEN LowerLetters[CHOOSE k \in 1..Len(UpperLetters) : UpperLetters[k] = c]
    ELSE c

\* str.lower()
Lower(s) == [k \in 1..Len(s) |-> LowerChar(s[k])]

\* number of leading whitespace characters of s
LeadingWs(s) ==
    CHOOSE n \in 0..Len(s) :
        /\ \A k \in 1..n : s[k] \in Whitespace
        /\ (n = Len(s) \/ s[n + 1] \notin Whitespace)

\* number of trailing whitespace characters of s
TrailingWs(s) ==
    CHOOSE n \in 0..Len(s) :
        /\ \A k \in (Len(s) - n + 1)..Len(s) : s[k] \in Whitespace
        /\ (n = Len(s) \/ s[Len(s) - n] \notin Whitespace)

\* str.strip()
Strip(s) ==
    IF LeadingWs(s) = Len(s) THEN <<>>
    ELSE SubSeq(s, LeadingWs(s) + 1, Len(s) - TrailingWs(s))

MatchAt(s, sub, p) ==
    /\ p + Len(sub) - 1 <= Len(s)
    /\ \A k \in 1..Len(sub) : s[p + k - 1] = sub[k]

\* str.find(sub, from): the first position >= from where sub occurs, 0 if none
Find(s, sub, from) ==
    IF \E p \in from..Len(s) : MatchAt(s, sub, p)
    THEN CHOOSE p \in from..Len(s) :
            /\ MatchAt(s, sub, p)
            /\ \A q \in from..(p - 1) : ~MatchAt(s, sub, q)
    ELSE 0

\* `sub in s`
Contains(s, sub) == Find(s, sub, 1) # 0

\* s.startswith(prefix)
StartsWith(s, prefix) == MatchAt(s, prefix, 1)

\* str.replace(old, new): one left-to-right pass over the non-overlapping
\* occurrences of old; the text after a replacement is scanned from the end
\* of the occurrence, the replacement itself is never scanned again
RECURSIVE ReplaceFrom(_, _, _, _)
ReplaceFrom(s, old, new, from) ==
    LET p == Find(s, old, from) IN
    IF p = 0 THEN SubSeq(s, from, Len(s))
    ELSE SubSeq(s, from, p - 1) \o new \o ReplaceFrom(s, old, new, p + Len(old))

Replace(s, old, new) == ReplaceFrom(s, old, new, 1)

\* sep.join(parts)
RECURSIVE Join(_, _)
Join(parts, sep) ==
    IF parts = <<>> THEN <<>>
    ELSE IF Len(parts) = 1 THEN parts[1]
    ELSE parts[1] \o sep \o Join(Tail(parts), sep)

Digits == <<"0", "1", "2", "3", "4", "5", "6", "7", "8", "9">>

\* str(n) of a natural number
RECURSIVE DecStr(_)
DecStr(n) ==
    IF n < 10 THEN <<Digits[n + 1]>>
    ELSE DecStr(n \div 10) \o <<Digits[(n % 10) + 1]>>

Min(a, b) == IF a <= b THEN a ELSE b

\* one record of slides_data
Rec(n, t, c) == [slide_number |-> n, title |-> t, content |-> c]

----------------------------------------------------------------------------
(* String literals of the program *)

ExecutiveSummaryNeedle ==
    <<"e", "x", "e", "c", "u", "t", "i", "v", "e", " ", "s", "u", "m", "m", "a", "r", "y">>
TripleNewline == <<NL, NL, NL>>
DoubleNewline == <<NL, NL>>
Ellipsis == <<".", ".", ".">>
PipeSep == <<" ", "|", " ">>
DashSep == <<" ", "-", " ">>
ColonSep == <<":", " ">>
BulletPrefix == <<Bullet, " ">>
FinancialDataHeading ==
    <<NL, "F", "i", "n", "a", "n", "c", "i", "a", "l", " ", "D", "a", "t", "a", ":">>
SlidePrefix == <<"S", "l", "i", "d", "e", " ">>
SubtitleText ==
    <<"I", "n", "v", "e", "s", "t", "m", "e", "n", "t", " ", "P", "r", "e", "s", "e",
      "n", "t", "a", "t", "i", "o", "n", NL, "N", "a", "t", "i", "o", "n", "a", "l",
      " ", "D", "e", "t", "a", "i", "l", " ", "&", " ", "C", "o", "n", "d", "i", "t",
      "i", "o", "n", " ", "R", "e", "p", "o", "r", "t", "s", " ", "C", "o", "m", "p",
      "a", "n", "y">>

----------------------------------------------------------------------------
(* The element tree and the BeautifulSoup calls the code makes *)

El(tag, cls, kids) == [tag |-> tag, cls |-> cls, kids |-> kids, text |-> <<>>]
Txt(s) == [tag |-> "#text", cls |-> {}, kids |-> <<>>, text |-> s]

\* concatenation of a sequence of sequences
RECURSIVE Flatten(_)
Flatten(ss) == IF Len(ss) = 0 THEN <<>> ELSE Head(ss) \o Flatten(Tail(ss))

\* the descendants among `kids` and below, in document order, whose tag is one
\* of `tags` and, when cls is not "", whose class list holds cls
RECURSIVE FindAllIn(_, _, _)
FindAllIn(kids, tags, cls) ==
    IF Len(kids) = 0 THEN <<>>
    ELSE LET h == Head(kids) IN
         (IF h.tag \in tags /\ (cls = "" \/ cls \in h.cls) THEN <<h>> ELSE <<>>)
         \o FindAllIn(h.kids, tags, cls)
         \o FindAllIn(Tail(kids), tags, cls)

\* element.find_all(name, class_=cls)
find_all(node, tags, cls) == FindAllIn(node.kids, tags, cls)

\* the text of every text node among `kids` and below, in document order
RECURSIVE TextIn(_)
TextIn(kids) ==
    IF Len(kids) = 0 THEN <<>>
    ELSE LET h == Head(kids) IN
         (IF h.tag = "#text" THEN h.text ELSE TextIn(h.kids)) \o TextIn(Tail(kids))

\* element.get_text()
get_text(node) == TextIn(node.kids)

\* element.get_text().strip()
StrippedText(node) == Strip(get_text(node))

----------------------------------------------------------------------------
(* The extractor: parse_html_file *)

\* slide_data['title']: the first h1 or h2, else "Slide {n}"
TitleOf(slide, n) ==
    LET title_elem == find_all(slide, {"h1", "h2"}, "") IN
    IF title_elem # <<>> THEN StrippedText(title_elem[1])
    ELSE SlidePrefix \o DecStr(n)

\* "Get main paragraphs (excluding titles)"
ParagraphParts(slide, t) ==
    LET paragraphs == find_all(slide, {"p"}, "") IN
    Flatten([k \in 1..Len(paragraphs) |->
        LET text == StrippedText(paragraphs[k]) IN
        IF text # <<>> /\ text # t /\ Len(text) > MinParaLen
        THEN <<text>> ELSE <<>>])

\* fault variant: a zip that loses the last pair
Zip_OneShort(values, labels) ==
    [k \in 1..(Min(Len(values), Len(labels)) - 1) |-> <<values[k], labels[k]>>]

\* zip(values, labels)
Zip(values, labels) ==
    [k \in 1..Min(Len(values), Len(labels)) |-> <<values[k], labels[k]>>]

\* f"\n{h3.get_text().strip()}:" when the element has an h3
HeadingParts(elem) ==
    LET h3 == find_all(elem, {"h3"}, "") IN
    IF h3 # <<>> THEN <<(<<NL>> \o StrippedText(h3[1]) \o <<":">>)>> ELSE <<>>

\* f"• {value} - {label}"
MetricLine(value, label) ==
    BulletPrefix \o StrippedText(value) \o DashSep \o StrippedText(label)

\* fault variant: the line without its bullet prefix
BulletLine_NoPrefix(text) == text

\* f"• {text}"
BulletLine(text) == BulletPrefix \o text

\* the fragments one metric box contributes
MetricBoxParts(box) ==
    LET metric_values == find_all(box, {"span"}, "metric-value")
        metric_labels == find_all(box, {"span"}, "metric-label")
        pairs == Zip(metric_values, metric_labels)
        box_paras == find_all(box, {"p"}, "")
    IN HeadingParts(box)
       \o [k \in 1..Len(pairs) |-> MetricLine(pairs[k][1], pairs[k][2])]
       \o Flatten([k \in 1..Len(box_paras) |->
            LET text == StrippedText(box_paras[k]) IN
            IF text # <<>> /\ Len(text) > MinParaLen
            THEN <<BulletLine(text)>> ELSE <<>>])

metric_boxes(slide) == find_all(slide, {"div"}, "metric-box")

\* f"• {label}: {value}"
FactLine(label, value) ==
    BulletPrefix \o StrippedText(label) \o ColonSep \o StrippedText(value)

\* what one item of a key-facts list contributes
KeyFactItemParts(item) ==
    LET label_elem == find_all(item, {"span"}, "fact-label")
        value_elem == find_all(item, {"span"}, "fact-value")
    IN IF label_elem # <<>> /\ value_elem # <<>>
       THEN <<FactLine(label_elem[1], value_elem[1])>>
       ELSE LET text == StrippedText(item) IN
            IF text # <<>> THEN <<BulletLine(text)>> ELSE <<>>

\* "Get key facts lists"
KeyFactsParts(slide) ==
    LET key_facts == find_all(slide, {"ul"}, "key-facts") IN
    Flatten([k \in 1..Len(key_facts) |->
        LET items == find_all(key_facts[k], {"li"}, "") IN
        Flatten([m \in 1..Len(items) |-> KeyFactItemParts(items[m])])])

\* class_=lambda x: x != 'key-facts' if x else True, called on every class of
\* the element, or on None when it has none
NotKeyFactsClass(node) ==
    IF node.cls = {} THEN TRUE ELSE \E c \in node.cls : c # "key-facts"

\* "Get regular lists"
RegularListParts(slide) ==
    LET all_lists == find_all(slide, {"ul"}, "")
        regular_lists == SelectSeq(all_lists, NotKeyFactsClass)
    IN Flatten([k \in 1..Len(regular_lists) |->
        IF "key-facts" \notin regular_lists[k].cls
        THEN LET items == find_all(regular_lists[k], {"li"}, "") IN
             Flatten([m \in 1..Len(items) |->
                LET text == StrippedText(items[m]) IN
                IF text # <<>> /\ ~StartsWith(text, <<Bullet>>)
                THEN <<BulletLine(text)>> ELSE <<>>])
        ELSE <<>>])

\* " | ".join of the stripped texts of the cells
CellsText(cells) == Join([k \in 1..Len(cells) |-> StrippedText(cells[k])], PipeSep)

\* fault variant: a separator one dash short
Dashes_OneShort(n) == Rep("-", n - 1)

\* "-" * n
Dashes(n) == Rep("-", n)

\* the fragments one financial table contributes
TableParts(table) ==
    LET headers == find_all(table, {"th"}, "")
        trs == find_all(table, {"tr"}, "")
        rows == IF Len(trs) = 0 THEN <<>> ELSE Tail(trs)
    IN <<FinancialDataHeading>>
       \o (IF headers # <<>>
           THEN <<CellsText(headers), Dashes(Len(CellsText(headers)))>>
           ELSE <<>>)
       \o Flatten([k \in 1..Len(rows) |->
            LET cells == find_all(rows[k], {"td"}, "") IN
            IF cells # <<>> THEN <<CellsText(cells)>> ELSE <<>>])

\* "Get tables"
TablesParts(slide) ==
    LET tables == find_all(slide, {"table"}, "financial-table") IN
    Flatten([k \in 1..Len(tables) |-> TableParts(tables[k])])

\* the fragments one partnership section contributes
PartnershipParts(partnership) ==
    LET facts == find_all(partnership, {"ul"}, "key-facts") IN
    HeadingParts(partnership)
    \o Flatten([k \in 1..Len(facts) |->
        LET items == find_all(facts[k], {"li"}, "") IN
        Flatten([m \in 1..Len(items) |->
            LET label == find_all(items[m], {"span"}, "fact-label")
                value == find_all(items[m], {"span"}, "fact-value")
            IN IF label # <<>> /\ value # <<>>
               THEN <<FactLine(label[1], value[1])>> ELSE <<>>])])

\* "Get partnership sections"
PartnershipsParts(slide) ==
    LET partnerships == find_all(slide, {"div"}, "partnership-section") IN
    Flatten([k \in 1..Len(partnerships) |-> PartnershipParts(partnerships[k])])

\* the missing-file branch: report and return None
ParseCheckMissing ==
    /\ pc = "p_check"
    /\ ~file_exists
    /\ stdout' = Append(stdout, "parse: not found")
    /\ parse_ret' = "None"
    /\ pc' = "p_return"
    /\ UNCHANGED <<file_exists, html, slides_data, i, parseVars, renderVars>>

ParseCheckOk ==
    /\ pc = "p_check"
    /\ file_exists
    /\ pc' = "p_open"
    /\ UNCHANGED <<file_exists, html, stdout, parse_ret, slides_data, i,
                   parseVars, renderVars>>

\* open, read, parse, slides_data = [], find the slide containers
ParseOpen ==
    /\ pc = "p_open"
    /\ file_exists
    /\ slides_data' = <<>>
    /\ i' = 0
    /\ pc' = "p_loop"
    /\ UNCHANGED <<file_exists, html, stdout, parse_ret, parseVars, renderVars>>

\* open() of a file removed since the check raises; nothing catches it
ParseOpenFails ==
    /\ pc = "p_open"
    /\ ~file_exists
    /\ pc' = "crashed"
    /\ UNCHANGED <<file_exists, html, stdout, parse_ret, slides_data, i,
                   parseVars, renderVars>>

\* the next slide container: its number and title, content_parts = []
ParseNextSlide ==
    /\ pc = "p_loop"
    /\ i < Len(html)
    /\ i' = i + 1
    /\ title' = TitleOf(html[i + 1], i + 1)
    /\ content_parts' = <<>>
    /\ pc' = "p_paras"
    /\ UNCHANGED <<file_exists, html, stdout, parse_ret, slides_data, j, renderVars>>

ExtractParagraphs ==
    /\ pc = "p_paras"
    /\ content_parts' = content_parts \o ParagraphParts(html[i], title)
    /\ j' = 0
    /\ pc' = "p_metrics"
    /\ UNCHANGED <<file_exists, html, stdout, parse_ret, slides_data, i, title,
                   renderVars>>

\* one pass of the loop over the metric boxes
ExtractMetricBox ==
    /\ pc = "p_metrics"
    /\ j < Len(metric_boxes(html[i]))
    /\ content_parts' = content_parts \o MetricBoxParts(metric_boxes(html[i])[j + 1])
    /\ j' = j + 1
    /\ UNCHANGED <<pc, file_exists, html, stdout, parse_ret, slides_data, i, title,
                   renderVars>>

ExtractKeyFacts ==
    /\ pc = "p_metrics"
    /\ j = Len(metric_boxes(html[i]))
    /\ content_parts' = content_parts \o KeyFactsParts(html[i])
    /\ pc' = "p_lists"
    /\ UNCHANGED <<file_exists, html, stdout, parse_ret, slides_data, i, title, j,
                   renderVars>>

ExtractRegularLists ==
    /\ pc = "p_lists"
    /\ content_parts' = content_parts \o RegularListParts(html[i])
    /\ pc' = "p_tables"
    /\ UNCHANGED <<file_exists, html, stdout, parse_ret, slides_data, i, title, j,
                   renderVars>>

\* fault variant: the table fragments put in front of the earlier rules
ExtractTables_Prepend ==
    /\ pc = "p_tables"
    /\ content_parts' = TablesParts(html[i]) \o content_parts
    /\ pc' = "p_partners"
    /\ UNCHANGED <<file_exists, html, stdout, parse_ret, slides_data, i, title, j,
                   renderVars>>

ExtractTables ==
    /\ pc = "p_tables"
    /\ content_parts' = content_parts \o TablesParts(html[i])
    /\ pc' = "p_partners"
    /\ UNCHANGED <<file_exists, html, stdout, parse_ret, slides_data, i, title, j,
                   renderVars>>

ExtractPartnerships ==
    /\ pc = "p_partners"
    /\ content_parts' = content_parts \o PartnershipsParts(html[i])
    /\ pc' = "p_finish"
    /\ UNCHANGED <<file_exists, html, stdout, parse_ret, slides_data, i, title, j,
                   renderVars>>

\* slide_data['content'] = '\n'.join(content_parts); slides_data.append
FinishSlide ==
    /\ pc = "p_finish"
    /\ slides_data' = Append(slides_data, Rec(i, title, Join(content_parts, <<NL>>)))
    /\ pc' = "p_loop"
    /\ UNCHANGED <<file_exists, html, stdout, parse_ret, i, parseVars, renderVars>>

\* return slides_data
ParseReturn ==
    /\ pc = "p_loop"
    /\ i = Len(html)
    /\ parse_ret' = "list"
    /\ pc' = "p_return"
    /\ UNCHANGED <<file_exists, html, stdout, slides_data, i, parseVars, renderVars>>

----------------------------------------------------------------------------
(* The renderer: create_powerpoint_presentation *)

\* fault variant: the skip condition with <= in place of <
InsufficientContent_OffByOne(c) ==
    Strip(c) = <<>> \/ Len(Strip(c)) <= MinContentLen

\* the skip condition of the loop
InsufficientContent(c) == Strip(c) = <<>> \/ Len(Strip(c)) < MinContentLen

\* fault variant: the title test without the index test
IsTitleSlide_AnyIndex(idx, t) == Contains(Lower(t), ExecutiveSummaryNeedle)

\* is_title, idx being the 0-based index of the record
IsTitleSlide(idx, t) == idx = 0 /\ Contains(Lower(t), ExecutiveSummaryNeedle)

\* "Clean up content"
CleanContent(c) == Strip(Replace(c, TripleNewline, DoubleNewline))

\* fault variant: the length limit with >= in place of >
LimitContent_AtLimit(c) ==
    IF Len(c) >= MaxContentLen THEN SubSeq(c, 1, MaxContentLen) \o Ellipsis ELSE c

\* "Limit content length for readability"
LimitContent(c) ==
    IF Len(c) > MaxContentLen THEN SubSeq(c, 1, MaxContentLen) \o Ellipsis ELSE c

\* the slide add_branded_slide appends: the layout it picks, the title text,
\* and the text of placeholder 1 (the fixed subtitle on the title layout, the
\* content on the content layout)
add_branded_slide(title_text, content_text, is_title_slide) ==
    [layout |-> IF is_title_slide THEN TitleLayout ELSE ContentLayout,
     title  |-> title_text,
     body   |-> IF is_title_slide THEN SubtitleText ELSE content_text]

\* one pass of the loop that takes the `continue`
RenderSkip ==
    /\ pc = "r_loop"
    /\ i < Len(slides_data)
    /\ InsufficientContent(slides_data[i + 1].content)
    /\ content' = slides_data[i + 1].content
    /\ i' = i + 1
    /\ UNCHANGED <<pc, file_exists, html, stdout, parse_ret, slides_data,
                   title, content_parts, j, prs, is_title, saved>>

\* one pass of the loop that appends a slide
RenderAdd ==
    /\ pc = "r_loop"
    /\ i < Len(slides_data)
    /\ ~InsufficientContent(slides_data[i + 1].content)
    /\ LET rec == slides_data[i + 1]
           t == IsTitleSlide(i, rec.title)
           c == LimitContent(CleanContent(rec.content))
       IN /\ is_title' = t
          /\ content' = c
          /\ prs' = Append(prs, add_branded_slide(rec.title, c, t))
    /\ i' = i + 1
    /\ UNCHANGED <<pc, file_exists, html, stdout, parse_ret, slides_data,
                   title, content_parts, j, saved>>

\* prs.save(output_filename) and the return
RenderSave ==
    /\ pc = "r_loop"
    /\ i = Len(slides_data)
    /\ saved' = <<prs>>
    /\ pc' = "r_return"
    /\ UNCHANGED <<file_exists, html, stdout, parse_ret, slides_data, i,
                   title, content_parts, j, prs, content, is_title>>

----------------------------------------------------------------------------
(* Record sequences handed to the renderer *)

T_ExecSummary ==
    <<"E", "x", "e", "c", "u", "t", "i", "v", "e", " ", "S", "u", "m", "m", "a", "r", "y">>
T_ExecUpper ==
    <<"O", "U", "R", " ", "E", "X", "E", "C", "U", "T", "I", "V", "E", " ",
      "S", "U", "M", "M", "A", "R", "Y", " ", "2", "0", "2", "4">>
T_ExecBroken ==
    <<"E", "x", "e", "c", "u", "t", "i", "v", "e", " ", " ", "S", "u", "m", "m", "a", "r", "y">>
T_Market == <<"M", "a", "r", "k", "e", "t">>

Body(n) == Rep("a", n)
Padded(s) == <<" ", NL>> \o s \o <<NL, " ", "\t">>
WithRun(r) == Body(MinParaLen) \o Rep(NL, r) \o Body(MinParaLen)

RecordChoices ==
    {<<T_ExecSummary, Body(MinContentLen)>>,
     <<T_ExecUpper, Padded(Body(MinContentLen - 1))>>,
     <<T_ExecBroken, Padded(Body(MinContentLen))>>,
     <<T_Market, Body(MinContentLen - 1)>>,
     <<T_Market, Rep(" ", MinContentLen + 1)>>,
     <<T_Market, <<>>>>,
     <<T_Market, Body(MaxContentLen)>>,
     <<T_ExecUpper, Body(MaxContentLen + 1)>>,
     <<T_Market, Body(MaxContentLen - 3) \o TripleNewline \o <<"b">>>>,
     <<T_Market, Body(MaxContentLen - 2) \o TripleNewline \o <<"b">>>>,
     <<T_Market, Padded(Body(MaxContentLen))>>}
    \cup {<<T_Market, WithRun(r)>> : r \in 2..MaxRun}

RecordSeqs ==
    UNION {{[k \in 1..n |-> Rec(k, f[k][1], f[k][2])] : f \in [1..n -> RecordChoices]}
           : n \in 1..MaxRecords}

InitRender ==
    /\ pc = "r_loop"
    /\ file_exists = TRUE
    /\ html = <<>>
    /\ stdout = <<>>
    /\ parse_ret = "unset"
    /\ slides_data \in RecordSeqs
    /\ i = 0
    /\ title = <<>>
    /\ content_parts = <<>>
    /\ j = 0
    /\ prs = <<>>
    /\ content = <<>>
    /\ is_title = FALSE
    /\ saved = <<>>

NextRender == RenderSkip \/ RenderAdd \/ RenderSave

SpecRender == InitRender /\ [][NextRender]_vars

----------------------------------------------------------------------------
(* main *)

\* "Check if HTML file exists": the early return
MainCheckMissing ==
    /\ pc = "m_check"
    /\ ~file_exists
    /\ stdout' = Append(stdout, "main: not found")
    /\ pc' = "m_done"
    /\ UNCHANGED <<file_exists, html, parse_ret, slides_data, i, parseVars, renderVars>>

\* slides_data = parse_html_file(html_file)
MainCallParse ==
    /\ pc = "m_check"
    /\ file_exists
    /\ pc' = "p_check"
    /\ UNCHANGED <<file_exists, html, stdout, parse_ret, slides_data, i,
                   parseVars, renderVars>>

\* `if not slides_data`: None or an empty list
MainParseFailed ==
    /\ pc = "p_return"
    /\ (parse_ret = "None" \/ slides_data = <<>>)
    /\ stdout' = Append(stdout, "main: failed to parse")
    /\ pc' = "m_done"
    /\ UNCHANGED <<file_exists, html, parse_ret, slides_data, i, parseVars, renderVars>>

\* fault variant: the renderer called whatever parse_html_file returned
MainCallRender_Unchecked ==
    /\ pc = "p_return"
    /\ prs' = <<>>
    /\ i' = 0
    /\ pc' = "r_loop"
    /\ UNCHANGED <<file_exists, html, stdout, parse_ret, slides_data, parseVars,
                   content, is_title, saved>>

\* create_powerpoint_presentation(slides_data): prs = Presentation()
MainCallRender ==
    /\ pc = "p_return"
    /\ parse_ret = "list"
    /\ slides_data # <<>>
    /\ prs' = <<>>
    /\ i' = 0
    /\ pc' = "r_loop"
    /\ UNCHANGED <<file_exists, html, stdout, parse_ret, slides_data, parseVars,
                   content, is_title, saved>>

\* "Conversion completed successfully!"
MainFinish ==
    /\ pc = "r_return"
    /\ pc' = "m_done"
    /\ UNCHANGED <<file_exists, html, stdout, parse_ret, slides_data, i,
                   parseVars, renderVars>>

\* the environment: the file is removed between main's check and the open
EnvRemoveFile ==
    /\ pc \in {"p_check", "p_open"}
    /\ file_exists
    /\ file_exists' = FALSE
    /\ UNCHANGED <<pc, html, stdout, parse_ret, slides_data, i, parseVars, renderVars>>

----------------------------------------------------------------------------
(* Documents *)

X_ExecHeading ==
    <<" ", " ", "E", "x", "e", "c", "u", "t", "i", "v", "e", " ", "S", "u", "m", "m", "a", "r", "y", NL>>
X_Leading ==
    <<"L", "e", "a", "d", "i", "n", "g", " ", "d", "e", "a", "l", "e", "r", " ",
      "s", "e", "r", "v", "i", "c", "e", "s", " ", "c", "o", "m", "p", "a", "n", "y">>
X_Metrics == <<"M", "e", "t", "r", "i", "c", "s">>
X_Growth == <<"G", "r", "o", "w", "t", "h">>
X_StrongGrowth ==
    <<"S", "t", "r", "o", "n", "g", " ", "g", "r", "o", "w", "t", "h", " ", "s", "e", "e", "n">>
X_Facts == <<"K", "e", "y", " ", "F", "a", "c", "t", "s">>
X_Revenue == <<"R", "e", "v", "e", "n", "u", "e">>
X_2M == <<"$", "2", "M">>
X_PlainFact == <<" ", "P", "l", "a", "i", "n", " ", "f", "a", "c", "t", " ">>
X_ItemOne == <<"I", "t", "e", "m", " ", "o", "n", "e">>
X_Already == <<Bullet, " ", "A", "l", "r", "e", "a", "d", "y">>
X_Financials == <<"F", "i", "n", "a", "n", "c", "i", "a", "l", "s">>
X_Year == <<"Y", "e", "a", "r">>
X_2024 == <<" ", "2", "0", "2", "4", " ">>
X_Partners == <<"P", "a", "r", "t", "n", "e", "r", "s">>
X_Partner == <<"P", "a", "r", "t", "n", "e", "r">>
X_Founded == <<"F", "o", "u", "n", "d", "e", "d">>
X_2019 == <<"2", "0", "1", "9">>
X_Thanks == <<"T", "h", "a", "n", "k", "s">>
X_Short == <<"s", "h", "o", "r", "t">>
X_Overview ==
    <<"O", "v", "e", "r", "v", "i", "e", "w", " ", "o", "f", " ", "t", "h", "e", " ",
      "m", "a", "r", "k", "e", "t">>

Leaf(tag, cls, s) == El(tag, cls, <<Txt(s)>>)
FactItem(l, v) ==
    El("li", {}, <<Leaf("span", {"fact-label"}, l), Leaf("span", {"fact-value"}, v)>>)

\* a title slide: the heading text carries surrounding whitespace, and one
\* paragraph repeats the title
Slide_Exec ==
    El("div", {"slide"},
       <<Leaf("h1", {}, X_ExecHeading),
         Leaf("p", {}, T_ExecSummary),
         Leaf("p", {}, X_Leading)>>)

\* a metric box whose paragraph precedes its values, with one value too many
Slide_Metrics ==
    El("div", {"slide"},
       <<Leaf("h2", {}, X_Metrics),
         El("div", {"metric-box"},
            <<Leaf("h3", {}, X_Growth),
              Leaf("p", {}, X_StrongGrowth),
              Leaf("span", {"metric-value"}, <<"A">>),
              Leaf("span", {"metric-label"}, <<"x">>),
              Leaf("span", {"metric-value"}, <<"B">>),
              Leaf("span", {"metric-label"}, <<"y">>),
              Leaf("span", {"metric-value"}, <<"C">>)>>)>>)

\* no heading at all; two metric boxes, the second with one label too many
Slide_Untitled ==
    El("div", {"slide"},
       <<El("div", {"metric-box"},
            <<Leaf("span", {"metric-value"}, <<"A">>),
              Leaf("span", {"metric-value"}, <<"B">>),
              Leaf("span", {"metric-label"}, <<"x">>),
              Leaf("span", {"metric-label"}, <<"y">>)>>),
         El("div", {"metric-box", "wide"},
            <<Leaf("span", {"metric-value"}, <<"D">>),
              Leaf("span", {"metric-label"}, <<"u">>),
              Leaf("span", {"metric-label"}, <<"v">>)>>)>>)

\* a key-facts list and a regular list
Slide_Facts ==
    El("div", {"slide"},
       <<Leaf("h2", {}, X_Facts),
         El("ul", {"key-facts"},
            <<FactItem(X_Revenue, X_2M), Leaf("li", {}, X_PlainFact)>>),
         El("ul", {},
            <<Leaf("li", {}, X_ItemOne), Leaf("li", {}, X_Already)>>)>>)

\* the financial table of the specification's example
Slide_Table ==
    El("div", {"slide"},
       <<Leaf("h2", {}, X_Financials),
         El("table", {"financial-table"},
            <<El("tr", {}, <<Leaf("th", {}, X_Year), Leaf("th", {}, X_Revenue)>>),
              El("tr", {}, <<Leaf("td", {}, X_2024), Leaf("td", {}, X_2M)>>)>>)>>)

\* a key-facts list inside a partnership section
Slide_Partner ==
    El("div", {"slide"},
       <<Leaf("h2", {}, X_Partners),
         El("div", {"partnership-section"},
            <<Leaf("h3", {}, X_Partner),
              El("ul", {"key-facts"}, <<FactItem(X_Founded, X_2019)>>)>>)>>)

\* one element of every rule, in the reverse of the rule order
Slide_Mixed ==
    El("div", {"slide"},
       <<El("table", {"financial-table"},
            <<El("tr", {}, <<Leaf("td", {}, X_Year)>>),
              El("tr", {}, <<Leaf("td", {}, X_2024), Leaf("td", {}, X_2M)>>)>>),
         El("ul", {"plain"}, <<Leaf("li", {}, X_ItemOne)>>),
         El("ul", {"key-facts", "wide"}, <<FactItem(X_Revenue, X_2M)>>),
         El("div", {"metric-box"},
            <<Leaf("span", {"metric-value"}, <<"A">>),
              Leaf("span", {"metric-label"}, <<"x">>)>>),
         Leaf("p", {}, X_Overview),
         Leaf("h2", {}, T_Market)>>)

\* too little text to give any content
Slide_Short ==
    El("div", {"slide"},
       <<Leaf("h2", {}, X_Thanks), Leaf("p", {}, X_Short)>>)

SlideChoices ==
    {Slide_Exec, Slide_Metrics, Slide_Untitled, Slide_Facts, Slide_Table,
     Slide_Partner, Slide_Mixed, Slide_Short}

Docs == UNION {[1..n -> SlideChoices] : n \in 0..MaxSlides}

----------------------------------------------------------------------------
(* The program run from main *)

Init ==
    /\ pc = "m_check"
    /\ file_exists \in BOOLEAN
    /\ html \in Docs
    /\ (~file_exists => html = <<>>)
    /\ stdout = <<>>
    /\ parse_ret = "unset"
    /\ slides_data = <<>>
    /\ i = 0
    /\ title = <<>>
    /\ content_parts = <<>>
    /\ j = 0
    /\ prs = <<>>
    /\ content = <<>>
    /\ is_title = FALSE
    /\ saved = <<>>

Next ==
    \/ MainCheckMissing
    \/ MainCallParse
    \/ MainParseFailed
    \/ MainCallRender
    \/ MainFinish
    \/ EnvRemoveFile
    \/ ParseCheckMissing
    \/ ParseCheckOk
    \/ ParseOpen
    \/ ParseOpenFails
    \/ ParseNextSlide
    \/ ExtractParagraphs
    \/ ExtractMetricBox
    \/ ExtractKeyFacts
    \/ ExtractRegularLists
    \/ ExtractTables
    \/ ExtractPartnerships
    \/ FinishSlide
    \/ ParseReturn
    \/ RenderSkip
    \/ RenderAdd
    \/ RenderSave

Spec == Init /\ [][Next]_vars

----------------------------------------------------------------------------
(* Properties of the renderer, checked under SpecRender *)

\* the 1-based positions, among the first n records, of the records whose
\* trimmed content has at least MinContentLen characters
KeptIndex(k) == Len(Strip(slides_data[k].content)) >= MinContentLen
KeptUpTo(n) == SelectSeq([k \in 1..n |-> k], KeptIndex)

\* the renderer has just appended a slide for record i
JustAdded ==
    /\ pc \in {"r_loop", "r_return"}
    /\ i > 0
    /\ Len(Strip(slides_data[i].content)) >= MinContentLen

\* C1: the slides of the deck are exactly the records, among those the loop
\* has passed, whose trimmed content has 20 characters or more: one slide per
\* such record, in record order, carrying that record's title; a record with
\* empty or shorter trimmed content adds nothing.
C1_SlidesAreKeptRecords ==
    pc \in {"r_loop", "r_return"} =>
        LET kept == KeptUpTo(i) IN
        /\ Len(prs) = Len(kept)
        /\ \A k \in 1..Len(prs) : prs[k].title = slides_data[kept[k]].title
        /\ (pc = "r_return" => i = Len(slides_data) /\ saved = <<prs>>)

\* a record of 19 trimmed characters (more than 20 untrimmed) was dropped and
\* a record of exactly 20 trimmed characters was kept
C1_Witness ==
    /\ pc = "r_return"
    /\ Len(slides_data) = 2
    /\ Len(Strip(slides_data[1].content)) = MinContentLen - 1
    /\ Len(slides_data[1].content) > MinContentLen
    /\ Len(Strip(slides_data[2].content)) = MinContentLen
    /\ Len(prs) = 1
    /\ prs[1].title = slides_data[2].title

\* C2: the content handed to add_branded_slide never holds three consecutive
\* newlines (every run of 3 or more was collapsed to 2).
C2_NoTripleNewlineLeft ==
    JustAdded => ~Contains(content, TripleNewline)

\* C3: a slide of the deck has the title layout if and only if it renders the
\* first record of the input and that record's lower-cased title contains
\* "executive summary"; every other slide has the content layout, and the
\* deck holds at most one title-layout slide.
C3_TitleLayoutOnlyFirstRecord ==
    pc \in {"r_loop", "r_return"} =>
        LET kept == KeptUpTo(i) IN
        /\ Len(prs) = Len(kept)
        /\ \A k \in 1..Len(prs) :
              /\ prs[k].layout \in {TitleLayout, ContentLayout}
              /\ prs[k].layout = TitleLayout <=>
                    (kept[k] = 1 /\ Contains(Lower(slides_data[1].title),
                                             ExecutiveSummaryNeedle))
        /\ Cardinality({k \in 1..Len(prs) : prs[k].layout = TitleLayout}) <= 1

\* a two-slide deck: the first record rendered on the title layout, a later
\* record with an "executive summary" title rendered on the content layout
C3_Witness ==
    /\ pc = "r_return"
    /\ Len(prs) = 2
    /\ prs[1].layout = TitleLayout
    /\ prs[2].layout = ContentLayout
    /\ Contains(Lower(prs[2].title), ExecutiveSummaryNeedle)

\* C4: the content handed to add_branded_slide is the normalised content
\* itself when that has 1500 characters or fewer, and its first 1500
\* characters followed by "..." when it is longer; on the content layout that
\* is the text of the slide.
C4_Truncation ==
    JustAdded =>
        LET n == CleanContent(slides_data[i].content) IN
        /\ Len(n) <= MaxContentLen => content = n
        /\ Len(n) > MaxContentLen =>
              /\ Len(content) = MaxContentLen + Len(Ellipsis)
              /\ SubSeq(content, 1, MaxContentLen) = SubSeq(n, 1, MaxContentLen)
              /\ SubSeq(content, MaxContentLen + 1, Len(content)) = Ellipsis
        /\ prs[Len(prs)].layout = ContentLayout => prs[Len(prs)].body = content

\* a normalised content of 1501 characters was cut to 1500 and "..."
C4_Witness ==
    /\ JustAdded
    /\ Len(CleanContent(slides_data[i].content)) = MaxContentLen + 1
    /\ Len(content) = MaxContentLen + Len(Ellipsis)
    /\ Len(slides_data) = 2
    /\ Len(CleanContent(slides_data[1].content)) = MaxContentLen
    /\ prs[1].body = CleanContent(slides_data[1].content)

----------------------------------------------------------------------------
(* Properties of the extractor and of main, checked under Spec *)

L_HeaderLine ==
    <<"Y", "e", "a", "r", " ", "|", " ", "R", "e", "v", "e", "n", "u", "e">>
L_RowLine == <<"2", "0", "2", "4", " ", "|", " ", "$", "2", "M">>
L_Year == <<"Y", "e", "a", "r">>
L_Revenue == <<"R", "e", "v", "e", "n", "u", "e">>
L_2024 == <<"2", "0", "2", "4">>
L_2M == <<"$", "2", "M">>

Texts(elems) == [k \in 1..Len(elems) |-> StrippedText(elems[k])]

\* the slide holds a financial table with header cells ["Year", "Revenue"]
\* and one data row ["2024", "$2M"]
HasYearRevenueTable(slide) ==
    \E k \in 1..Len(find_all(slide, {"table"}, "financial-table")) :
        LET table == find_all(slide, {"table"}, "financial-table")[k]
            trs == find_all(table, {"tr"}, "")
        IN /\ Texts(find_all(table, {"th"}, "")) = <<L_Year, L_Revenue>>
           /\ Len(trs) = 2
           /\ Texts(find_all(trs[1], {"th"}, "")) = <<L_Year, L_Revenue>>
           /\ Texts(find_all(trs[2], {"td"}, "")) = <<L_2024, L_2M>>

\* the content holds the three lines header, n dashes, row, one after the other
HasTableBlock(c, n) ==
    Contains(<<NL>> \o c \o <<NL>>,
             <<NL>> \o L_HeaderLine \o <<NL>> \o Rep("-", n) \o <<NL>>
                    \o L_RowLine \o <<NL>>)

\* C5 as amended: for the Year/Revenue table the content holds the line
\* "Year | Revenue", then a line of 14 dashes (the length of the header line),
\* then the line "2024 | $2M".
C5_DashLineOfFourteen ==
    \A n \in 1..Len(slides_data) :
        HasYearRevenueTable(html[n]) => HasTableBlock(slides_data[n].content, 14)

\* C5 as stated: the dash line has 13 characters.
C5_DashLineOfThirteen ==
    \A n \in 1..Len(slides_data) :
        HasYearRevenueTable(html[n]) => HasTableBlock(slides_data[n].content, 13)

\* a record was extracted from a slide with the Year/Revenue table
C5_Witness ==
    \E n \in 1..Len(slides_data) :
        /\ HasYearRevenueTable(html[n])
        /\ slides_data[n].title = X_Financials

\* a section-header line: "\n{heading}:"
IsSectionHeader(f) == Len(f) >= 2 /\ f[1] = NL /\ f[Len(f)] = ":"

\* what a step appended to content_parts
Added == SubSeq(content_parts', Len(content_parts) + 1, Len(content_parts'))

Range(seq) == {seq[k] : k \in 1..Len(seq)}

\* the header line of every financial table of the slide and the pipe-joined
\* text of every row of one
TableLines(slide) ==
    LET tables == Range(find_all(slide, {"table"}, "financial-table")) IN
    {CellsText(find_all(t, {"th"}, "")) : t \in tables}
    \cup UNION {{CellsText(find_all(r, {"td"}, "")) : r \in Range(find_all(t, {"tr"}, ""))}
               : t \in tables}

\* C6 as amended: every fragment the metric-box, key-fact, list and
\* partnership rules append starts with the bullet prefix unless it is a
\* section-header line; the paragraph rule appends the trimmed text of a
\* paragraph as it is, and the table rule appends the "Financial Data:"
\* header, a header line, a line of dashes or the pipe-joined text of a row,
\* none of them with a prefix added.
C6_PrefixByRule ==
    [][/\ pc \in {"p_metrics", "p_lists", "p_partners"} =>
            \A k \in 1..Len(Added) :
                \/ StartsWith(Added[k], BulletPrefix)
                \/ (pc # "p_lists" /\ IsSectionHeader(Added[k]))
       /\ pc = "p_paras" =>
            \A k \in 1..Len(Added) :
                \E m \in 1..Len(find_all(html[i], {"p"}, "")) :
                    Added[k] = StrippedText(find_all(html[i], {"p"}, "")[m])
       /\ pc = "p_tables" =>
            \A k \in 1..Len(Added) :
                \/ Added[k] = FinancialDataHeading
                \/ Added[k] \in TableLines(html[i])
                \/ (Len(Added[k]) > 0 /\ \A m \in 1..Len(Added[k]) : Added[k][m] = "-")
      ]_vars

\* C6 as stated: every fragment of a slide's content starts with the bullet
\* prefix or is a section-header line.
C6_EveryUnitPrefixed ==
    pc = "p_finish" =>
        \A k \in 1..Len(content_parts) :
            \/ StartsWith(content_parts[k], BulletPrefix)
            \/ IsSectionHeader(content_parts[k])

\* a slide whose fragments are a paragraph without prefix, bulleted lines and
\* a table row without prefix
C6_Witness ==
    /\ pc = "p_finish"
    /\ \E k \in 1..Len(content_parts) : StartsWith(content_parts[k], BulletPrefix)
    /\ \E k \in 1..Len(content_parts) : content_parts[k] = X_Overview
    /\ \E k \in 1..Len(content_parts) : content_parts[k] = L_RowLine

Reported(line) == \E k \in 1..Len(stdout) : stdout[k] = line

\* C7: when parse_html_file finds the file missing it reports the error and
\* returns no records, and the program goes on to its end without calling
\* the renderer or writing a deck; the renderer runs, and a deck is written,
\* only after parse_html_file returned a non-empty list; a run that ends
\* without a deck has reported why.
C7_MissingFileSkipsRendering ==
    /\ parse_ret = "None" =>
          /\ Reported("parse: not found")
          /\ slides_data = <<>>
          /\ pc \in {"p_return", "m_done"}
    /\ (parse_ret = "None" \/ Reported("main: not found")) =>
          /\ prs = <<>>
          /\ saved = <<>>
          /\ pc \notin {"r_loop", "r_return", "crashed"}
    /\ (pc \in {"r_loop", "r_return"} \/ prs # <<>> \/ saved # <<>>) =>
          /\ parse_ret = "list"
          /\ slides_data # <<>>
    /\ pc = "m_done" =>
          \/ saved # <<>>
          \/ Reported("main: not found")
          \/ Reported("main: failed to parse")

\* the program ended after parse_html_file returned None
C7_Witness ==
    /\ pc = "m_done"
    /\ parse_ret = "None"
    /\ Reported("parse: not found")
    /\ Reported("main: failed to parse")

\* the items of the key-facts lists of a slide that hold a label and a value
KeyFactPairItems(slide) ==
    SelectSeq(Flatten([k \in 1..Len(find_all(slide, {"ul"}, "key-facts")) |->
                 find_all(find_all(slide, {"ul"}, "key-facts")[k], {"li"}, "")]),
              LAMBDA item : /\ find_all(item, {"span"}, "fact-label") # <<>>
                            /\ find_all(item, {"span"}, "fact-value") # <<>>)

ItemLine(item) ==
    BulletPrefix \o StrippedText(find_all(item, {"span"}, "fact-label")[1])
                 \o ColonSep
                 \o StrippedText(find_all(item, {"span"}, "fact-value")[1])

Count(seq, x) == Cardinality({k \in 1..Len(seq) : seq[k] = x})

\* C8: every key-fact item with a label and a value gives exactly one line
\* "bullet label: value" in the slide's fragments: the line occurs as often as
\* there are such items with that label and value, and no more.
C8_OneLinePerKeyFact ==
    pc = "p_finish" =>
        LET items == KeyFactPairItems(html[i]) IN
        \A k \in 1..Len(items) :
            Count(content_parts, ItemLine(items[k]))
                = Cardinality({m \in 1..Len(items) : ItemLine(items[m]) = ItemLine(items[k])})

\* C9: the step that handles one metric box appends, after the optional
\* heading line, exactly min(m, n) pair lines "bullet value_k - label_k",
\* k = 1..min(m, n), next to each other and in positional order, and after
\* them only the box's paragraph lines.
C9_MetricPairs ==
    [][(pc = "p_metrics" /\ j' = j + 1) =>
        LET box == metric_boxes(html[i])[j + 1]
            vs == find_all(box, {"span"}, "metric-value")
            ls == find_all(box, {"span"}, "metric-label")
            ps == find_all(box, {"p"}, "")
            n == IF Len(vs) < Len(ls) THEN Len(vs) ELSE Len(ls)
            q == Cardinality({k \in 1..Len(ps) : Len(StrippedText(ps[k])) > MinParaLen})
            h == IF Len(Added) > 0 /\ IsSectionHeader(Added[1]) THEN 1 ELSE 0
        IN /\ SubSeq(content_parts', 1, Len(content_parts)) = content_parts
           /\ Len(Added) = h + n + q
           /\ \A k \in 1..n :
                 Added[h + k] = <<Bullet, " ">> \o StrippedText(vs[k])
                                \o <<" ", "-", " ">> \o StrippedText(ls[k])
           /\ \A k \in (h + n + 1)..Len(Added) :
                 \E m \in 1..Len(ps) : Added[k] = <<Bullet, " ">> \o StrippedText(ps[m])
      ]_vars

\* a box with more values than labels, a heading and a paragraph was handled,
\* and a box with values [A, B] and labels [x, y] gave "A - x" then "B - y"
C9_Witness ==
    /\ pc = "p_metrics"
    /\ j = 1
    /\ Len(find_all(metric_boxes(html[i])[1], {"span"}, "metric-value"))
         > Len(find_all(metric_boxes(html[i])[1], {"span"}, "metric-label"))
    /\ content_parts[Len(content_parts) - 2] = <<Bullet, " ", "A", " ", "-", " ", "x">>
    /\ content_parts[Len(content_parts) - 1] = <<Bullet, " ", "B", " ", "-", " ", "y">>

\* the fragments of all metric boxes of a slide, box after box
MetricBoxesParts(slide) ==
    Flatten([k \in 1..Len(metric_boxes(slide)) |-> MetricBoxParts(metric_boxes(slide)[k])])

\* the fragments of a slide, rule after rule in the fixed order
PartsInRuleOrder(slide, t) ==
    ParagraphParts(slide, t) \o MetricBoxesParts(slide) \o KeyFactsParts(slide)
    \o RegularListParts(slide) \o TablesParts(slide) \o PartnershipsParts(slide)

\* C10 as amended: the content of every record is the newline join of the
\* fragments grouped by rule in the order paragraphs, metric boxes, key-fact
\* lists, other lists, financial tables, partnership sections, whatever the
\* document order of the elements across rules; within a rule the matched
\* elements are taken in document order, and within one metric box the
\* fragments are the heading, then the pairs, then the paragraphs.
C10_RuleOrder ==
    /\ \A n \in 1..Len(slides_data) :
          parse_ret # "unset" \/ pc \in {"p_loop", "p_paras", "p_metrics", "p_lists",
                                        "p_tables", "p_partners", "p_finish"} =>
              slides_data[n].content
                  = Join(PartsInRuleOrder(html[n], slides_data[n].title), <<NL>>)
    /\ pc = "p_finish" => content_parts = PartsInRuleOrder(html[i], title)

\* the fragments of one metric box in the document order of the elements they
\* come from: the first h3, the k-th value span (of a pair), the paragraphs
DocOrderParts(box) ==
    LET elems == find_all(box, {"h3", "span", "p"}, "")
        n == Min(Len(find_all(box, {"span"}, "metric-value")),
                 Len(find_all(box, {"span"}, "metric-label")))
        IsValue(e) == e.tag = "span" /\ "metric-value" \in e.cls
        Rank(k) == Cardinality({m \in 1..k : IsValue(elems[m])})
        FirstH3(k) == elems[k].tag = "h3" /\ \A m \in 1..(k - 1) : elems[m].tag # "h3"
    IN Flatten([k \in 1..Len(elems) |->
         IF FirstH3(k) THEN HeadingParts(box)
         ELSE IF IsValue(elems[k]) /\ Rank(k) <= n
              THEN <<MetricLine(elems[k],
                                find_all(box, {"span"}, "metric-label")[Rank(k)])>>
         ELSE IF elems[k].tag = "p" /\ Len(StrippedText(elems[k])) > MinParaLen
              THEN <<BulletLine(StrippedText(elems[k]))>>
         ELSE <<>>])

\* C10 as stated: besides the rule order, the fragments of one rule follow
\* the document order of their elements; for the metric box just handled, the
\* fragments it appended are in the document order of its elements.
C10_FragmentsInDocumentOrder ==
    (pc = "p_metrics" /\ j >= 1) =>
        LET box == metric_boxes(html[i])[j]
            n == Len(DocOrderParts(box))
        IN /\ Len(content_parts) >= n
           /\ SubSeq(content_parts, Len(content_parts) - n + 1, Len(content_parts))
                 = DocOrderParts(box)

\* a record was extracted from the slide whose elements stand in the reverse
\* of the rule order
C10_Witness ==
    \E n \in 1..Len(slides_data) :
        /\ html[n] = Slide_Mixed
        /\ Find(slides_data[n].content, X_Overview, 1) = 1
        /\ Find(slides_data[n].content, L_RowLine, 1) > 1

=============================================================================
